---- MODULE Spec2Model ----
(***************************************************************************)
(* A model of the rust-text crate's rectangle packer (pack.rs, reached     *)
(* through pack_glyphs in lib.rs) and of its binary parser primitive       *)
(* (parse.rs).                                                             *)
(***************************************************************************)
EXTENDS Integers, Sequences, FiniteSets, TLC

\* ------------------------------------------------------------------------
\* Bounds of the model
\* ------------------------------------------------------------------------
MaxItems == 3
MaxDim == 2

\* ------------------------------------------------------------------------
\* State
\* ------------------------------------------------------------------------
VARIABLES
    glyphs,     \* the glyphs handed to pack_glyphs, in iteration order
    to_pack,    \* bin_pack's local vector, after the sort
    nodes,      \* the heap of Node cells, addressed by index (0 is None)
    root,       \* Packer::root
    items,      \* the HashMap from key to Rect being built
    idx,        \* position of the for loop over to_pack
    last,       \* the branch the latest call of fit took and the node it chose
    width,      \* PackResult::width
    height,     \* PackResult::height
    pc,         \* position inside bin_pack
    ty,         \* the integral type being parsed
    order,      \* the byte order asked for: "le" (parse_le) or "be" (parse_be)
    known,      \* the value whose encoding starts the bytes, if there is one
    bytes,      \* the byte sequence the cursor was created over
    input,      \* the cursor: the slice that is still to be read
    parsed,     \* the ParseResult of the call
    ppc,        \* position of the parser's caller: "ready", then "returned"
    native,     \* the byte order of the machine the parser runs on
    shape,      \* what is parsed: a value of ty, an array [ty; n] or a struct
    layout,     \* how the font file at hand was written out
    file,       \* the bytes handed to FontFile::from_bytes
    ttf,        \* what TtfFile::parse gave inside from_bytes
    font,       \* what FontFile::from_bytes gave
    again,      \* what a second call of FontFile::from_bytes on the same bytes gave
    tpc         \* position of from_bytes's caller: "ready", "returned", then "again"

packvars == <<glyphs, to_pack, nodes, root, items, idx, last, width, height, pc>>

parsevars == <<ty, order, known, bytes, input, parsed, ppc, native, shape>>

ttfvars == <<layout, file, ttf, font, again, tpc>>

vars == <<glyphs, to_pack, nodes, root, items, idx, last, width, height, pc,
          ty, order, known, bytes, input, parsed, ppc, native, shape,
          layout, file, ttf, font, again, tpc>>

\* ------------------------------------------------------------------------
\* lib.rs: RasterizedGlyph and the closures pack_glyphs passes to bin_pack
\* ------------------------------------------------------------------------
RasterizedGlyph(c, w, h) == [character |-> c, width |-> w, height |-> h]

max(a, b) == IF a >= b THEN a ELSE b

\* Ordering values of std::cmp::Ordering
Less == -1
Equal == 0
Greater == 1

cmp(a, b) == IF a < b THEN Less ELSE IF a = b THEN Equal ELSE Greater

reverse(o) == 0 - o

size_f(e) == <<e.width, e.height>>

ordering_f_ascending(s1, s2) == cmp(max(s2[1], s2[2]), max(s1[1], s1[2]))

ordering_f_by_width(s1, s2) == cmp(s1[1], s2[1])

ordering_f(s1, s2) == cmp(max(s1[1], s1[2]), max(s2[1], s2[2]))

key_f_by_width(e) == e.width

key_f(e) == e.character

\* ------------------------------------------------------------------------
\* pack.rs: Node, Rect
\* ------------------------------------------------------------------------
None == 0

Node_new(x, y, w, h) ==
    [occupied |-> FALSE, x |-> x, y |-> y, width |-> w, height |-> h,
     down |-> None, right |-> None]

Rect(x, y, w, h) == [x |-> x, y |-> y, width |-> w, height |-> h]

\* Packer::new: a heap holding the single root node
Packer_new(w, h) == [nodes |-> <<Node_new(0, 0, w, h)>>, root |-> 1]

\* The result of find_node: a node index, None, or Panicked when an occupied
\* node has no child to unwrap.
Panicked == -1

RECURSIVE find_node_down_first(_, _, _, _)
find_node_down_first(ns, n, w, h) ==
    LET node == ns[n] IN
    IF node.occupied
    THEN IF node.down = None THEN Panicked
         ELSE LET r == find_node_down_first(ns, node.down, w, h) IN
              IF r # None THEN r
              ELSE IF node.right = None THEN Panicked
                   ELSE find_node_down_first(ns, node.right, w, h)
    ELSE IF w <= node.width /\ h <= node.height THEN n
    ELSE None

RECURSIVE find_node(_, _, _, _)
find_node(ns, n, w, h) ==
    LET node == ns[n] IN
    IF node.occupied
    THEN IF node.right = None THEN Panicked
         ELSE LET r == find_node(ns, node.right, w, h) IN
              IF r # None THEN r
              ELSE IF node.down = None THEN Panicked
                   ELSE find_node(ns, node.down, w, h)
    ELSE IF w <= node.width /\ h <= node.height THEN n
    ELSE None

split_node_down_at_top(ns, n, w, h) ==
    LET bnode == ns[n]
        d == Len(ns) + 1
        r == Len(ns) + 2
    IN  [ns EXCEPT ![n] = [bnode EXCEPT !.occupied = TRUE, !.down = d, !.right = r]]
        \o <<Node_new(bnode.x, bnode.y, bnode.width, bnode.height - h),
             Node_new(bnode.x + w, bnode.y, bnode.width - w, h)>>

split_node_narrow_down(ns, n, w, h) ==
    LET bnode == ns[n]
        d == Len(ns) + 1
        r == Len(ns) + 2
    IN  [ns EXCEPT ![n] = [bnode EXCEPT !.occupied = TRUE, !.down = d, !.right = r]]
        \o <<Node_new(bnode.x, bnode.y + h, w, bnode.height - h),
             Node_new(bnode.x + w, bnode.y, bnode.width - w, h)>>

split_node_tall_right(ns, n, w, h) ==
    LET bnode == ns[n]
        d == Len(ns) + 1
        r == Len(ns) + 2
    IN  [ns EXCEPT ![n] = [bnode EXCEPT !.occupied = TRUE, !.down = d, !.right = r]]
        \o <<Node_new(bnode.x, bnode.y + h, bnode.width, bnode.height - h),
             Node_new(bnode.x + w, bnode.y, bnode.width - w, bnode.height)>>

split_node_no_right_child(ns, n, w, h) ==
    LET bnode == ns[n]
        d == Len(ns) + 1
    IN  [ns EXCEPT ![n] = [bnode EXCEPT !.occupied = TRUE, !.down = d]]
        \o <<Node_new(bnode.x, bnode.y + h, bnode.width, bnode.height - h),
             Node_new(bnode.x + w, bnode.y, bnode.width - w, h)>>

\* split_node: occupies node n and allocates its two children
split_node(ns, n, w, h) ==
    LET bnode == ns[n]
        d == Len(ns) + 1
        r == Len(ns) + 2
    IN  [ns EXCEPT ![n] = [bnode EXCEPT !.occupied = TRUE, !.down = d, !.right = r]]
        \o <<Node_new(bnode.x, bnode.y + h, bnode.width, bnode.height - h),
             Node_new(bnode.x + w, bnode.y, bnode.width - w, h)>>

\* The outcome of the locate-and-split that ends grow_right and grow_down
grow_finish(ns, rt, w, h, how) ==
    LET node == find_node(ns, rt, w, h) IN
    IF node = Panicked
    THEN [nodes |-> ns, root |-> rt, node |-> None, how |-> "unwrap_failed"]
    ELSE IF node = None
    THEN [nodes |-> ns, root |-> rt, node |-> None, how |-> "expect_failed"]
    ELSE [nodes |-> split_node(ns, node, w, h), root |-> rt, node |-> node, how |-> how]

grow_right_no_widen(ns, rt, w, h) ==
    LET root_w == ns[rt].width
        root_h == ns[rt].height
        new_root == Len(ns) + 1
        strip == Len(ns) + 2
        ns2 == ns \o <<[Node_new(0, 0, root_w, root_h)
                          EXCEPT !.occupied = TRUE, !.down = rt, !.right = strip],
                       Node_new(root_w, 0, w, root_h)>>
    IN  grow_finish(ns2, new_root, w, h, "right")

grow_right(ns, rt, w, h) ==
    LET root_w == ns[rt].width
        root_h == ns[rt].height
        new_root == Len(ns) + 1
        strip == Len(ns) + 2
        ns2 == ns \o <<[Node_new(0, 0, root_w + w, root_h)
                          EXCEPT !.occupied = TRUE, !.down = rt, !.right = strip],
                       Node_new(root_w, 0, w, root_h)>>
    IN  grow_finish(ns2, new_root, w, h, "right")

grow_down_narrow_strip(ns, rt, w, h) ==
    LET root_w == ns[rt].width
        root_h == ns[rt].height
        new_root == Len(ns) + 1
        strip == Len(ns) + 2
        ns2 == ns \o <<[Node_new(0, 0, root_w, root_h + h)
                          EXCEPT !.occupied = TRUE, !.right = rt, !.down = strip],
                       Node_new(0, root_h, w, h)>>
    IN  grow_finish(ns2, new_root, w, h, "down")

grow_down_no_heighten(ns, rt, w, h) ==
    LET root_w == ns[rt].width
        root_h == ns[rt].height
        new_root == Len(ns) + 1
        strip == Len(ns) + 2
        ns2 == ns \o <<[Node_new(0, 0, root_w, root_h)
                          EXCEPT !.occupied = TRUE, !.right = rt, !.down = strip],
                       Node_new(0, root_h, root_w, h)>>
    IN  grow_finish(ns2, new_root, w, h, "down")

grow_down(ns, rt, w, h) ==
    LET root_w == ns[rt].width
        root_h == ns[rt].height
        new_root == Len(ns) + 1
        strip == Len(ns) + 2
        ns2 == ns \o <<[Node_new(0, 0, root_w, root_h + h)
                          EXCEPT !.occupied = TRUE, !.right = rt, !.down = strip],
                       Node_new(0, root_h, root_w, h)>>
    IN  grow_finish(ns2, new_root, w, h, "down")

can_down(ns, rt, w, h) == w <= ns[rt].width

can_right(ns, rt, w, h) == h <= ns[rt].height

grow_node_right_first(ns, rt, w, h) ==
    IF can_right(ns, rt, w, h) THEN grow_right(ns, rt, w, h)
    ELSE IF can_down(ns, rt, w, h) THEN grow_down(ns, rt, w, h)
    ELSE [nodes |-> ns, root |-> rt, node |-> None, how |-> "invalid_sorting"]

grow_node(ns, rt, w, h) ==
    LET root_w == ns[rt].width
        root_h == ns[rt].height
        should_right == can_right(ns, rt, w, h) /\ (root_h > (root_w + w))
        should_down == can_down(ns, rt, w, h) /\ (root_w > (root_h + h))
    IN  IF should_right THEN grow_right(ns, rt, w, h)
        ELSE IF should_down THEN grow_down(ns, rt, w, h)
        ELSE IF can_right(ns, rt, w, h) THEN grow_right(ns, rt, w, h)
        ELSE IF can_down(ns, rt, w, h) THEN grow_down(ns, rt, w, h)
        ELSE [nodes |-> ns, root |-> rt, node |-> None, how |-> "invalid_sorting"]

\* Packer::fit. how tells which branch ran: "found", "right", "down", or one
\* of the fatal outcomes "invalid_sorting", "expect_failed", "unwrap_failed".
fit(ns, rt, w, h) ==
    LET found == find_node(ns, rt, w, h)
        g == IF found = Panicked
             THEN [nodes |-> ns, root |-> rt, node |-> None, how |-> "unwrap_failed"]
             ELSE IF found # None
             THEN [nodes |-> split_node(ns, found, w, h), root |-> rt,
                   node |-> found, how |-> "found"]
             ELSE grow_node(ns, rt, w, h)
    IN  [nodes |-> g.nodes, root |-> g.root, how |-> g.how, node |-> g.node,
         rect |-> IF g.node = None THEN Rect(0, 0, 0, 0)
                  ELSE Rect(g.nodes[g.node].x, g.nodes[g.node].y,
                            g.nodes[g.node].width, g.nodes[g.node].height)]

Fatal == {"invalid_sorting", "expect_failed", "unwrap_failed"}

\* ------------------------------------------------------------------------
\* pack.rs: bin_pack
\* ------------------------------------------------------------------------
\* Vec::sort_by is a stable sort: e goes behind every element that does
\* not compare Greater than it.
RECURSIVE sort_insert_before_equals(_, _)
sort_insert_before_equals(sorted, e) ==
    IF sorted = <<>> THEN <<e>>
    ELSE IF reverse(ordering_f(size_f(Head(sorted)), size_f(e))) # Less
         THEN <<e>> \o sorted
         ELSE <<Head(sorted)>> \o sort_insert_before_equals(Tail(sorted), e)

RECURSIVE sort_insert(_, _)
sort_insert(sorted, e) ==
    IF sorted = <<>> THEN <<e>>
    ELSE IF reverse(ordering_f(size_f(Head(sorted)), size_f(e))) = Greater
         THEN <<e>> \o sorted
         ELSE <<Head(sorted)>> \o sort_insert(Tail(sorted), e)

RECURSIVE sort_by(_)
sort_by(v) ==
    IF v = <<>> THEN <<>>
    ELSE sort_insert(sort_by(SubSeq(v, 1, Len(v) - 1)), v[Len(v)])

first_size_unit_default(v) == IF v = <<>> THEN <<1, 1>> ELSE size_f(v[1])

first_size(v) == IF v = <<>> THEN <<0, 0>> ELSE size_f(v[1])

insert(m, k, rect) == (k :> rect) @@ m

\* ------------------------------------------------------------------------
\* parse.rs: the integral types and their arithmetic
\* ------------------------------------------------------------------------
\* A value of an integral type is held as its bytes by significance: w[1]
\* is the least significant byte, w[size] the most significant one.
Byte == 0..255

IntegralTypes ==
    {[name |-> "u8",  size |-> 1, signed |-> FALSE],
     [name |-> "u16", size |-> 2, signed |-> FALSE],
     [name |-> "u32", size |-> 4, signed |-> FALSE],
     [name |-> "u64", size |-> 8, signed |-> FALSE],
     [name |-> "i8",  size |-> 1, signed |-> TRUE],
     [name |-> "i16", size |-> 2, signed |-> TRUE],
     [name |-> "i32", size |-> 4, signed |-> TRUE],
     [name |-> "i64", size |-> 8, signed |-> TRUE]}

\* <$t>::default()
default(len) == [j \in 1..len |-> 0]

\* bytes[i] as $t: zero extension of a u8 (for i8 the same bits)
as_t(b, len) == [j \in 1..len |-> IF j = 1 THEN b ELSE 0]

\* x << (i * 8) on a value of len bytes: the bits shifted out are lost
shl_bytes(x, i) == [j \in 1..Len(x) |-> IF j - i >= 1 THEN x[j - i] ELSE 0]

RECURSIVE or8(_, _)
or8(a, b) ==
    IF a = 0 THEN b
    ELSE IF b = 0 THEN a
    ELSE (IF a % 2 = 1 \/ b % 2 = 1 THEN 1 ELSE 0) + 2 * or8(a \div 2, b \div 2)

\* x | y
bitor(x, y) == [j \in 1..Len(x) |-> or8(x[j], y[j])]

swap_bytes(x) == [j \in 1..Len(x) |-> x[Len(x) + 1 - j]]

\* The byte order of the machine the crate is built for. The crate builds
\* only for Windows (lib.rs selects its implementation types under
\* cfg(target_os = "windows")), whose targets are all little-endian.
target_endian == "little"

\* <$t>::from_le and <$t>::from_be: a byte swap when the machine's own order
\* is the other one
from_le(x) == IF native = "little" THEN x ELSE swap_bytes(x)

from_be_no_swap(x) == x

from_be(x) == IF native = "big" THEN x ELSE swap_bytes(x)

\* ------------------------------------------------------------------------
\* parse.rs: parseable_integral
\* ------------------------------------------------------------------------
Err == [ok |-> FALSE, value |-> <<>>]

\* A slice indexed at or beyond its length: the call panics
OutOfBounds == <<-1>>

IndexPanic == [ok |-> FALSE, value |-> OutOfBounds]

Ok(v) == [ok |-> TRUE, value |-> v]

\* The loop "for i in 0..LEN { result |= (bytes[i] as $t) << (i * 8) }",
\* from round i on
RECURSIVE accumulate(_, _, _, _)
accumulate(bs, len, i, result) ==
    IF i >= len THEN result
    ELSE IF i + 1 > Len(bs) THEN OutOfBounds
    ELSE accumulate(bs, len, i + 1, bitor(result, shl_bytes(as_t(bs[i + 1], len), i)))

\* The end of parse_le and parse_be once the bounds check has passed:
\* result is the accumulated value
parse_end(in, LEN, result, value) ==
    IF result = OutOfBounds
    THEN [result |-> IndexPanic, input |-> in]
    ELSE [result |-> Ok(value), input |-> SubSeq(in, LEN + 1, Len(in))]

\* parse_le and parse_be give the ParseResult and the cursor after the call
parse_le(t, in) ==
    LET LEN == t.size IN
    IF Len(in) < LEN
    THEN [result |-> Err, input |-> in]
    ELSE LET result == accumulate(in, LEN, 0, default(LEN)) IN
         parse_end(in, LEN, result, from_le(result))

parse_be_no_bounds_check(t, in) ==
    LET LEN == t.size
        result == accumulate(in, LEN, 0, default(LEN))
    IN  parse_end(in, LEN, result, from_be(result))

parse_be(t, in) ==
    LET LEN == t.size IN
    IF Len(in) < LEN
    THEN [result |-> Err, input |-> in]
    ELSE LET result == accumulate(in, LEN, 0, default(LEN)) IN
         parse_end(in, LEN, result, from_be(result))

\* ------------------------------------------------------------------------
\* Reference encoders and the numbers the values stand for
\* ------------------------------------------------------------------------
\* The two's complement big-endian and little-endian encodings of the
\* number n in len bytes
RECURSIVE to_be_bytes(_, _)
to_be_bytes(n, len) ==
    IF len = 0 THEN <<>> ELSE to_be_bytes(n \div 256, len - 1) \o <<n % 256>>

RECURSIVE to_le_bytes(_, _)
to_le_bytes(n, len) ==
    IF len = 0 THEN <<>> ELSE <<n % 256>> \o to_le_bytes(n \div 256, len - 1)

\* The number a value stands for, reading from its most significant byte
RECURSIVE number_from(_, _, _)
number_from(x, j, acc) ==
    IF j = 0 THEN acc ELSE number_from(x, j - 1, acc * 256 + x[j])

number(t, x) ==
    number_from(x, t.size, IF t.signed /\ x[t.size] >= 128 THEN -1 ELSE 0)

\* Numbers around the limits of the types
Numbers ==
    {0, 1, 127, 128, 255, 256, 258, 32767, 32768, 65535, 66051, 16909060,
     2147483647, -1, -2, -128, -129, -32768, -32769, -2147483647}

InRange(t, n) ==
    IF t.signed
    THEN CASE t.size = 1 -> n >= -128 /\ n <= 127
           [] t.size = 2 -> n >= -32768 /\ n <= 32767
           [] OTHER -> TRUE
    ELSE CASE t.size = 1 -> n >= 0 /\ n <= 255
           [] t.size = 2 -> n >= 0 /\ n <= 65535
           [] OTHER -> n >= 0

\* Values named by their bytes, most significant first, for the numbers
\* beyond 2^31: 0x0102..., 0xF1F2..., 0x8000..., 0xFFFF...
WidePatterns(len) ==
    {[j \in 1..len |-> j], [j \in 1..len |-> 240 + j],
     [j \in 1..len |-> IF j = 1 THEN 128 ELSE 0], [j \in 1..len |-> 255]}

\* A known value: its encodings in both byte orders, and its number when
\* the number is below 2^31 in size
Knowns(t) ==
    {[be |-> to_be_bytes(n, t.size), le |-> to_le_bytes(n, t.size),
      has_number |-> TRUE, number |-> n] : n \in {m \in Numbers : InRange(t, m)}}
    \cup
    {[be |-> p, le |-> [j \in 1..t.size |-> p[t.size + 1 - j]],
      has_number |-> FALSE, number |-> 0] : p \in WidePatterns(t.size)}

NoKnown == [be |-> <<>>, le |-> <<>>, has_number |-> FALSE, number |-> 0]

\* ------------------------------------------------------------------------
\* Inputs of the parser
\* ------------------------------------------------------------------------
MaxTail == 2

TailBytes == {0, 171}

Tails == UNION {[1..n -> TailBytes] : n \in 0..MaxTail}

\* The parser is asked for a single value of an integral type
Integral == [kind |-> "integral", n |-> 0, fields |-> <<>>]

ParseIdle ==
    /\ ty = [name |-> "u8", size |-> 1, signed |-> FALSE]
    /\ order = "none"
    /\ known = NoKnown
    /\ bytes = <<>>
    /\ input = <<>>
    /\ parsed = Err
    /\ ppc = "idle"
    /\ native = target_endian
    /\ shape = Integral

TtfIdle ==
    /\ layout = [tags |-> <<>>, magic |-> 0, head_at |-> "table", name_at |-> "table",
                 string_at |-> "storage", recs |-> <<>>, overrun |-> 0, cut |-> 0]
    /\ file = <<>>
    /\ ttf = [kind |-> "idle", at |-> 0, names |-> <<>>]
    /\ font = [kind |-> "idle", extension |-> "", face_names |-> <<>>]
    /\ again = [kind |-> "idle", extension |-> "", face_names |-> <<>>]
    /\ tpc = "idle"

PackIdle ==
    /\ glyphs = <<>>
    /\ to_pack = <<>>
    /\ nodes = <<>>
    /\ root = None
    /\ items = <<>>
    /\ idx = 0
    /\ last = [how |-> "none", node |-> None]
    /\ width = 0
    /\ height = 0
    /\ pc = "idle"

\* A cursor over the encoding of a known value followed by further bytes,
\* or over fewer bytes than the type is wide
Cursor ==
    /\ PackIdle
    /\ TtfIdle
    /\ ty \in IntegralTypes
    /\ order \in {"le", "be"}
    /\ \/ /\ known \in Knowns(ty)
          /\ \E tail \in Tails :
                bytes = (IF order = "le" THEN known.le ELSE known.be) \o tail
       \/ /\ known = NoKnown
          /\ \E n \in 0..(ty.size - 1) : bytes \in [1..n -> TailBytes]
    /\ input = bytes
    /\ parsed = Err
    /\ ppc = "ready"
    /\ shape = Integral

\* The parser as the crate is built
InitParse == Cursor /\ native = target_endian

\* The parser's code compiled for a machine of either byte order
InitParseAnyHost == Cursor /\ native \in {"little", "big"}

ParseLe ==
    /\ ppc = "ready"
    /\ shape = Integral
    /\ order = "le"
    /\ LET r == parse_le(ty, input) IN
          /\ parsed' = r.result
          /\ input' = r.input
    /\ ppc' = "returned"
    /\ UNCHANGED <<ty, order, known, bytes, native, shape>>
    /\ UNCHANGED packvars
    /\ UNCHANGED ttfvars

ParseBe ==
    /\ ppc = "ready"
    /\ shape = Integral
    /\ order = "be"
    /\ LET r == parse_be(ty, input) IN
          /\ parsed' = r.result
          /\ input' = r.input
    /\ ppc' = "returned"
    /\ UNCHANGED <<ty, order, known, bytes, native, shape>>
    /\ UNCHANGED packvars
    /\ UNCHANGED ttfvars

NextParse == ParseLe \/ ParseBe

SpecParse == InitParse /\ [][NextParse]_vars

SpecParseAnyHost == InitParseAnyHost /\ [][NextParse]_vars

\* ------------------------------------------------------------------------
\* parse.rs: parseable_array and parseable_struct
\* ------------------------------------------------------------------------
u8 == [name |-> "u8", size |-> 1, signed |-> FALSE]
u16 == [name |-> "u16", size |-> 2, signed |-> FALSE]
u32 == [name |-> "u32", size |-> 4, signed |-> FALSE]
i16 == [name |-> "i16", size |-> 2, signed |-> TRUE]
i32 == [name |-> "i32", size |-> 4, signed |-> TRUE]
i64 == [name |-> "i64", size |-> 8, signed |-> TRUE]

\* The parser of an integral type for the byte order asked for
parse_int(ord, t, bs) == IF ord = "le" THEN parse_le(t, bs) ELSE parse_be(t, bs)

restore_cursor_never(r, in) == r

\* A parser that failed leaves the caller's cursor where it was: *input is
\* assigned only on success
restore_cursor(r, in) == IF r.result.ok THEN r ELSE [result |-> Err, input |-> in]

\* The loop of [T; n]::parse_le and parse_be from element i on; r is the
\* parse of element i
RECURSIVE parse_array_from(_, _, _, _, _, _)
RECURSIVE array_element(_, _, _, _, _, _, _)
parse_array_from(ord, t, n, i, bs, result) ==
    IF i >= n THEN [result |-> Ok(result), input |-> bs]
    ELSE array_element(ord, t, n, i, bs, result, parse_int(ord, t, bs))

array_element(ord, t, n, i, bs, result, r) ==
    IF ~r.result.ok THEN [result |-> Err, input |-> bs]
    ELSE parse_array_from(ord, t, n, i + 1, r.input, Append(result, r.result.value))

\* [T; n]::parse_le
parse_array_le(t, n, in) ==
    restore_cursor(parse_array_from("le", t, n, 0, in, <<>>), in)

\* [T; n]::parse_be
parse_array_be(t, n, in) ==
    restore_cursor(parse_array_from("be", t, n, 0, in, <<>>), in)

\* A field of a parseable_struct!: a value of type ty, or an array [ty; n]
Field(name, t) == [name |-> name, ty |-> t, array |-> FALSE, n |-> 0]

ArrayField(name, t, n) == [name |-> name, ty |-> t, array |-> TRUE, n |-> n]

parse_field(ord, f, bs) ==
    IF ~f.array THEN parse_int(ord, f.ty, bs)
    ELSE IF ord = "le" THEN parse_array_le(f.ty, f.n, bs)
    ELSE parse_array_be(f.ty, f.n, bs)

\* The fields of a struct in declaration order, from field k on; r is the
\* parse of field k, and ? returns its error
RECURSIVE parse_fields(_, _, _, _, _)
RECURSIVE struct_field(_, _, _, _, _, _)
parse_fields(ord, fields, k, bs, acc) ==
    IF k > Len(fields) THEN [result |-> Ok(acc), input |-> bs]
    ELSE struct_field(ord, fields, k, bs, acc, parse_field(ord, fields[k], bs))

struct_field(ord, fields, k, bs, acc, r) ==
    IF ~r.result.ok THEN [result |-> Err, input |-> bs]
    ELSE parse_fields(ord, fields, k + 1, r.input,
                      (fields[k].name :> r.result.value) @@ acc)

parse_struct_le(fields, in) ==
    restore_cursor(parse_fields("le", fields, 1, in, <<>>), in)

parse_struct_be(fields, in) ==
    restore_cursor(parse_fields("be", fields, 1, in, <<>>), in)

\* ------------------------------------------------------------------------
\* ttf.rs: the tables
\* ------------------------------------------------------------------------
\* 0x5F0F3CF5
HEAD_TABLE_MAGIC == 1594834165

Fixed == i32
LongDateTime == i64
FWord == i16

OffsetSubtable ==
    <<Field("scaler_type", u32), Field("num_tables", u16), Field("search_range", u16),
      Field("entry_selector", u16), Field("range_shift", u16)>>

TableDirectoryEntry ==
    <<ArrayField("tag", u8, 4), Field("checksum", u32), Field("offset", u32),
      Field("length", u32)>>

HeadTable ==
    <<Field("version", Fixed), Field("font_revision", Fixed),
      Field("checksum_adjustment", u32), Field("magic_number", u32),
      Field("flags", u16), Field("units_per_em", u16),
      Field("created", LongDateTime), Field("modified", LongDateTime),
      Field("x_min", FWord), Field("y_min", FWord), Field("x_max", FWord),
      Field("y_max", FWord), Field("mac_style", u16), Field("lowest_rec_ppem", u16),
      Field("font_direction_hint", i16), Field("index_to_loc_format", i16),
      Field("glyph_data_format", i16)>>

NameRecord ==
    <<Field("platform_id", u16), Field("platform_specific_id", u16),
      Field("language_id", u16), Field("name_id", u16), Field("length", u16),
      Field("offset", u16)>>

\* The three fields NameTable::parse_be reads before the records
NameTableHeader ==
    <<Field("format", u16), Field("count", u16), Field("string_offset", u16)>>

\* The loop of NameTable::parse_be that pushes count records; r is the parse
\* of record i
RECURSIVE name_records_from(_, _, _, _)
RECURSIVE name_record(_, _, _, _, _)
name_records_from(count, i, bs, name_records) ==
    IF i >= count THEN [result |-> Ok(name_records), input |-> bs]
    ELSE name_record(count, i, bs, name_records, parse_struct_be(NameRecord, bs))

name_record(count, i, bs, name_records, r) ==
    IF ~r.result.ok THEN [result |-> Err, input |-> bs]
    ELSE name_records_from(count, i + 1, r.input, Append(name_records, r.result.value))

\* The end of NameTable::parse_be: Ok(Self{ format, count, string_offset, name_records })
name_table(header, recs) ==
    IF ~recs.result.ok THEN recs
    ELSE [result |-> Ok([format |-> header["format"], count |-> header["count"],
                         string_offset |-> header["string_offset"],
                         name_records |-> recs.result.value]),
          input |-> recs.input]

\* NameTable::parse_be behind the three header fields
name_table_records(header) ==
    IF ~header.result.ok THEN header
    ELSE name_table(header.result.value,
                    name_records_from(number(u16, header.result.value["count"]), 0,
                                      header.input, <<>>))

NameTable_parse_be(in) ==
    restore_cursor(name_table_records(parse_struct_be(NameTableHeader, in)), in)

\* ------------------------------------------------------------------------
\* Strings: a String is the sequence of its characters' code points
\* ------------------------------------------------------------------------
\* U+FFFD REPLACEMENT CHARACTER
REPLACEMENT == 65533

Continuation(b) == b >= 128 /\ b <= 191

\* The bytes allowed behind the lead byte b0 of a 3 or 4 byte sequence
SecondOk(b0, b1) ==
    CASE b0 = 224 -> b1 >= 160 /\ b1 <= 191
      [] b0 = 237 -> b1 >= 128 /\ b1 <= 159
      [] b0 = 240 -> b1 >= 144 /\ b1 <= 191
      [] b0 = 244 -> b1 >= 128 /\ b1 <= 143
      [] OTHER -> Continuation(b1)

Drop(s, n) == SubSeq(s, n + 1, Len(s))

\* String::from_utf8_lossy: UTF-8, each ill-formed part replaced by U+FFFD
RECURSIVE from_utf8_lossy(_)
from_utf8_lossy(d) ==
    IF d = <<>> THEN <<>>
    ELSE LET b0 == d[1]
             n == Len(d)
         IN
         IF b0 < 128 THEN <<b0>> \o from_utf8_lossy(Drop(d, 1))
         ELSE IF b0 >= 194 /\ b0 <= 223
         THEN IF n >= 2 /\ Continuation(d[2])
              THEN <<(b0 - 192) * 64 + (d[2] - 128)>> \o from_utf8_lossy(Drop(d, 2))
              ELSE <<REPLACEMENT>> \o from_utf8_lossy(Drop(d, 1))
         ELSE IF b0 >= 224 /\ b0 <= 239
         THEN IF ~(n >= 2 /\ SecondOk(b0, d[2]))
              THEN <<REPLACEMENT>> \o from_utf8_lossy(Drop(d, 1))
              ELSE IF ~(n >= 3 /\ Continuation(d[3]))
              THEN <<REPLACEMENT>> \o from_utf8_lossy(Drop(d, 2))
              ELSE <<(b0 - 224) * 4096 + (d[2] - 128) * 64 + (d[3] - 128)>>
                   \o from_utf8_lossy(Drop(d, 3))
         ELSE IF b0 >= 240 /\ b0 <= 244
         THEN IF ~(n >= 2 /\ SecondOk(b0, d[2]))
              THEN <<REPLACEMENT>> \o from_utf8_lossy(Drop(d, 1))
              ELSE IF ~(n >= 3 /\ Continuation(d[3]))
              THEN <<REPLACEMENT>> \o from_utf8_lossy(Drop(d, 2))
              ELSE IF ~(n >= 4 /\ Continuation(d[4]))
              THEN <<REPLACEMENT>> \o from_utf8_lossy(Drop(d, 3))
              ELSE <<(b0 - 240) * 262144 + (d[2] - 128) * 4096 + (d[3] - 128) * 64
                     + (d[4] - 128)>> \o from_utf8_lossy(Drop(d, 4))
         ELSE <<REPLACEMENT>> \o from_utf8_lossy(Drop(d, 1))

\* data.chunks_exact(2).map(|a| u16::from_be_bytes([a[0], a[1]])): a last odd
\* byte is left out
RECURSIVE chunks_be(_)
chunks_be(d) ==
    IF Len(d) < 2 THEN <<>> ELSE <<d[1] * 256 + d[2]>> \o chunks_be(Drop(d, 2))

\* String::from_utf16_lossy: surrogate pairs joined, lone surrogates replaced
RECURSIVE from_utf16_lossy(_)
from_utf16_lossy(t) ==
    IF t = <<>> THEN <<>>
    ELSE LET c == t[1] IN
         IF c < 55296 \/ c > 57343 THEN <<c>> \o from_utf16_lossy(Drop(t, 1))
         ELSE IF c <= 56319 /\ Len(t) >= 2 /\ t[2] >= 56320 /\ t[2] <= 57343
         THEN <<65536 + (c - 55296) * 1024 + (t[2] - 56320)>> \o from_utf16_lossy(Drop(t, 2))
         ELSE <<REPLACEMENT>> \o from_utf16_lossy(Drop(t, 1))

\* ------------------------------------------------------------------------
\* Inputs of the array and struct parsers
\* ------------------------------------------------------------------------
\* The lengths parseable_array! is instantiated for
ArrayLens == 0..4

\* The records declared with parseable_struct!
Structs == {OffsetSubtable, TableDirectoryEntry, HeadTable, NameRecord}

Array(n) == [kind |-> "array", n |-> n, fields |-> <<>>]

Struct(fields) == [kind |-> "struct", n |-> 0, fields |-> fields]

\* The number of bytes a value of the shape is encoded in
RECURSIVE fields_size(_, _)
fields_size(fields, k) ==
    IF k > Len(fields) THEN 0
    ELSE (IF fields[k].array THEN fields[k].n * fields[k].ty.size
          ELSE fields[k].ty.size) + fields_size(fields, k + 1)

shape_size(sh, t) ==
    CASE sh.kind = "integral" -> t.size
      [] sh.kind = "array" -> sh.n * t.size
      [] OTHER -> fields_size(sh.fields, 1)

\* Byte sequences of a length: counting up, and all 255
Patterns(len) == {[j \in 1..len |-> j], [j \in 1..len |-> 255]}

\* A cursor over a whole array or struct followed by further bytes, or over
\* any shorter prefix of one
CompoundCursor ==
    /\ PackIdle
    /\ TtfIdle
    /\ \/ /\ ty \in IntegralTypes
          /\ \E n \in ArrayLens : shape = Array(n)
       \/ /\ ty = u8
          /\ \E fields \in Structs : shape = Struct(fields)
    /\ order \in {"le", "be"}
    /\ known = NoKnown
    /\ \E len \in 0..(shape_size(shape, ty) + MaxTail) : bytes \in Patterns(len)
    /\ input = bytes
    /\ parsed = Err
    /\ ppc = "ready"

InitParseAll == (Cursor \/ CompoundCursor) /\ native = target_endian

\* let r = <[T; n]>::parse_le(&mut input) or parse_be(&mut input)
ParseArray ==
    /\ ppc = "ready"
    /\ shape.kind = "array"
    /\ LET r == IF order = "le" THEN parse_array_le(ty, shape.n, input)
                ELSE parse_array_be(ty, shape.n, input) IN
          /\ parsed' = r.result
          /\ input' = r.input
    /\ ppc' = "returned"
    /\ UNCHANGED <<ty, order, known, bytes, native, shape>>
    /\ UNCHANGED packvars
    /\ UNCHANGED ttfvars

\* let r = S::parse_le(&mut input) or parse_be(&mut input) of a struct S
ParseStruct ==
    /\ ppc = "ready"
    /\ shape.kind = "struct"
    /\ LET r == IF order = "le" THEN parse_struct_le(shape.fields, input)
                ELSE parse_struct_be(shape.fields, input) IN
          /\ parsed' = r.result
          /\ input' = r.input
    /\ ppc' = "returned"
    /\ UNCHANGED <<ty, order, known, bytes, native, shape>>
    /\ UNCHANGED packvars
    /\ UNCHANGED ttfvars

NextParseAll == ParseLe \/ ParseBe \/ ParseArray \/ ParseStruct

SpecParseAll == InitParseAll /\ [][NextParseAll]_vars

\* ------------------------------------------------------------------------
\* ttf.rs: TtfFile::parse_be
\* ------------------------------------------------------------------------
\* The value of an integral type that stands for the number n
word(n, len) == to_le_bytes(n, len)

\* The outcomes of TtfFile::parse: Ok with the names map, Err(()), or a
\* panic; at is the line of ttf.rs that ended the call
TtfOk(names) == [kind |-> "ok", at |-> 180, names |-> names]

TtfErr(line) == [kind |-> "err", at |-> line, names |-> <<>>]

TtfPanic(line) == [kind |-> "panic", at |-> line, names |-> <<>>]

\* format!("{}{}{}{}", e.tag[0] as char, ...)
tag_of(e) == [j \in 1..4 |-> number(u8, e["tag"][j])]

head_tag == <<104, 101, 97, 100>>

name_tag == <<110, 97, 109, 101>>

\* The loop that reads num_tables directory entries, from entry i on; e is
\* the parse of entry i; ok is FALSE when it failed and the unwrap panicked
RECURSIVE collect_entries(_, _, _, _)
RECURSIVE directory_entry(_, _, _, _, _)
collect_entries(num_tables, i, bs, entries) ==
    IF i >= num_tables THEN [ok |-> TRUE, entries |-> entries, input |-> bs]
    ELSE directory_entry(num_tables, i, bs, entries,
                         parse_struct_be(TableDirectoryEntry, bs))

directory_entry(num_tables, i, bs, entries, e) ==
    IF ~e.result.ok THEN [ok |-> FALSE, entries |-> entries, input |-> bs]
    ELSE collect_entries(num_tables, i + 1, e.input,
                         (tag_of(e.result.value) :> e.result.value) @@ entries)

\* text of a name record's bytes
text_mac_for_all(platform_id, data) == from_utf8_lossy(data)

text_of(platform_id, data) ==
    IF platform_id = 1 THEN from_utf8_lossy(data)
    ELSE from_utf16_lossy(chunks_be(data))

names_add_overwriting(names, id, text) == (id :> {text}) @@ names

\* names.insert(id, HashSet::new()) when the key is new, then ns.insert(text)
names_add(names, id, text) ==
    IF id \in DOMAIN names
    THEN [names EXCEPT ![id] = @ \cup {text}]
    ELSE (id :> {text}) @@ names

\* The loop over name.name_records, from record k on; ok is FALSE when the
\* slice strings[offs..(offs + len)] is out of range and panics
RECURSIVE collect_names(_, _, _, _)
collect_names(name_records, k, strings, names) ==
    IF k > Len(name_records) THEN [ok |-> TRUE, names |-> names]
    ELSE LET e == name_records[k]
             offs == number(u16, e["offset"])
             len == number(u16, e["length"])
         IN  IF offs + len > Len(strings) THEN [ok |-> FALSE, names |-> names]
             ELSE collect_names(name_records, k + 1, strings,
                      names_add(names, number(u16, e["name_id"]),
                                text_of(number(u16, e["platform_id"]),
                                        SubSeq(strings, offs + 1, offs + len))))

\* The end of parse_be: r is what the loop over the name records gave
names_collected(r) == IF ~r.ok THEN TtfPanic(156) ELSE TtfOk(r.names)

\* let strings = &orig_name_bytes[(name.string_offset as usize)..] and the loop
strings_of(orig_name_bytes, name, string_offset) ==
    IF string_offset > Len(orig_name_bytes) THEN TtfPanic(151)
    ELSE names_collected(collect_names(name.name_records, 1,
                                       Drop(orig_name_bytes, string_offset), <<>>))

\* NameTable::parse_be(&mut name_bytes).unwrap()
name_table_parsed(orig_name_bytes, name) ==
    IF ~name.result.ok THEN TtfPanic(148)
    ELSE strings_of(orig_name_bytes, name.result.value,
                    number(u16, name.result.value.string_offset))

\* let mut name_bytes = &input[(name_entry.offset as usize)..]
name_table_at(in, name_offset) ==
    IF name_offset > Len(in) THEN TtfPanic(146)
    ELSE name_table_parsed(Drop(in, name_offset),
                           NameTable_parse_be(Drop(in, name_offset)))

\* The part of parse_be behind the magic check: the name table
parse_names(in, entries) ==
    IF name_tag \notin DOMAIN entries THEN TtfErr(143)
    ELSE name_table_at(in, number(u32, entries[name_tag]["offset"]))

magic_ok_always(head) == TRUE

magic_ok(head) == head["magic_number"] = word(HEAD_TABLE_MAGIC, 4)

\* HeadTable::parse_be(&mut head_bytes)? and the magic check
head_table_parsed(in, entries, head) ==
    IF ~head.result.ok THEN TtfErr(135)
    ELSE IF ~magic_ok(head.result.value) THEN TtfErr(138)
    ELSE parse_names(in, entries)

\* let mut head_bytes = &input[(head_entry.offset as usize)..]
head_table_at(in, entries, head_offset) ==
    IF head_offset > Len(in) THEN TtfPanic(134)
    ELSE head_table_parsed(in, entries, parse_struct_be(HeadTable, Drop(in, head_offset)))

\* The part of parse_be behind the directory loop: the head entry
parse_head(in, dir) ==
    IF ~dir.ok THEN TtfPanic(123)
    ELSE IF head_tag \notin DOMAIN dir.entries THEN TtfErr(131)
    ELSE head_table_at(in, dir.entries, number(u32, dir.entries[head_tag]["offset"]))

\* The part of parse_be behind OffsetSubtable::parse_be(&mut bytes)?
parse_directory(in, offset) ==
    IF ~offset.result.ok THEN TtfErr(119)
    ELSE parse_head(in, collect_entries(number(u16, offset.result.value["num_tables"]),
                                        0, offset.input, <<>>))

TtfFile_parse_be(in) == parse_directory(in, parse_struct_be(OffsetSubtable, in))

\* TtfFile::parse
TtfFile_parse(in) == TtfFile_parse_be(in)

\* TtfFile::name
TtfFile_name(t, id) == IF id \in DOMAIN t.names THEN t.names[id] ELSE {}

TtfFile_has_name(t, id) == id \in DOMAIN t.names

\* ------------------------------------------------------------------------
\* font_file.rs: FontFile::from_bytes
\* ------------------------------------------------------------------------
\* The orders in which iterating a HashSet can give its elements
Orders(S) ==
    {s \in [1..Cardinality(S) -> S] : \A i, j \in DOMAIN s : i # j => s[i] # s[j]}

FontFileOk(names) == [kind |-> "ok", extension |-> "ttf", face_names |-> names]

FormatError == [kind |-> "format_error", extension |-> "", face_names |-> <<>>]

FontPanic == [kind |-> "panic", extension |-> "", face_names |-> <<>>]

\* The results FontFile::from_bytes can give when TtfFile::parse gave t
from_bytes(t) ==
    IF t.kind = "panic" THEN {FontPanic}
    ELSE IF t.kind = "ok" /\ TtfFile_has_name(t, 4)
    THEN {FontFileOk(names) : names \in Orders(TtfFile_name(t, 4))}
    ELSE {FormatError}

\* ------------------------------------------------------------------------
\* Inputs of the font parser: files written out from a layout
\* ------------------------------------------------------------------------
MaxRecords == 2

RECURSIVE concat(_)
concat(ss) == IF ss = <<>> THEN <<>> ELSE Head(ss) \o concat(Tail(ss))

\* UTF-16 big-endian code units of a text of the basic plane
utf16be(text) == concat([i \in 1..Len(text) |-> <<text[i] \div 256, text[i] % 256>>])

\* The bytes that spell a text on a platform: one byte per character on the
\* Macintosh platform (1), UTF-16 big-endian elsewhere
encode(platform_id, text) == IF platform_id = 1 THEN text ELSE utf16be(text)

\* "Ar" and "B"
Texts == {<<65, 114>>, <<66>>}

\* Bytes that are the encoding of no ASCII text
RawData == <<195, 169, 255>>

RecordChoices ==
    UNION {{[platform_id |-> p, name_id |-> id, data |-> d] :
               id \in {4, 6}, d \in {encode(p, t) : t \in Texts} \cup {RawData}} :
           p \in {1, 3}}

glyf_tag == <<103, 108, 121, 102>>

\* The layout all the others are variations of: complete and well-formed
Plain(recs) ==
    [tags |-> <<head_tag, name_tag>>, magic |-> HEAD_TABLE_MAGIC,
     head_at |-> "table", name_at |-> "table", string_at |-> "storage",
     recs |-> recs, overrun |-> 0, cut |-> 0]

DirEnd(l) == 12 + 16 * Len(l.tags)

HeadPos(l) == DirEnd(l)

NamePos(l) == HeadPos(l) + 54

StoragePos(l) == NamePos(l) + 6 + 12 * Len(l.recs)

Storage(l) == concat([k \in 1..Len(l.recs) |-> l.recs[k].data])

Total(l) == StoragePos(l) + Len(Storage(l))

FileLen(l) == Total(l) - l.cut

\* Where a directory entry or the name table's header points
At(l, mode, pos) ==
    CASE mode \in {"table", "storage"} -> pos
      [] mode = "end" -> FileLen(l)
      [] mode = "beyond" -> FileLen(l) + 1

EntryBytes(l, tag) ==
    tag \o to_be_bytes(0, 4)
        \o to_be_bytes(CASE tag = head_tag -> At(l, l.head_at, HeadPos(l))
                         [] tag = name_tag -> At(l, l.name_at, NamePos(l))
                         [] OTHER -> Total(l), 4)
        \o to_be_bytes(0, 4)

HeadBytes(l) ==
    to_be_bytes(65536, 4) \o to_be_bytes(0, 8) \o to_be_bytes(l.magic, 4)
        \o to_be_bytes(0, 38)

RECURSIVE SumLen(_, _)
SumLen(recs, k) == IF k = 0 THEN 0 ELSE SumLen(recs, k - 1) + Len(recs[k].data)

RecordBytes(l, k) ==
    to_be_bytes(l.recs[k].platform_id, 2) \o to_be_bytes(0, 4)
        \o to_be_bytes(l.recs[k].name_id, 2)
        \o to_be_bytes(Len(l.recs[k].data)
                       + (IF k = Len(l.recs) THEN l.overrun ELSE 0), 2)
        \o to_be_bytes(SumLen(l.recs, k - 1), 2)

NameBytes(l) ==
    to_be_bytes(0, 2) \o to_be_bytes(Len(l.recs), 2)
        \o to_be_bytes(At(l, l.string_at, StoragePos(l)) - NamePos(l), 2)
        \o concat([k \in 1..Len(l.recs) |-> RecordBytes(l, k)])
        \o Storage(l)

Build(l) ==
    SubSeq(to_be_bytes(65536, 4) \o to_be_bytes(Len(l.tags), 2) \o to_be_bytes(0, 6)
               \o concat([i \in 1..Len(l.tags) |-> EntryBytes(l, l.tags[i])])
               \o HeadBytes(l) \o NameBytes(l),
           1, FileLen(l))

\* Well-placed tables with any name records; the length of the last record
\* may run past the end of the storage
NameLayouts ==
    UNION {{[Plain(recs) EXCEPT !.overrun = o] : o \in {0, 1}} :
           recs \in UNION {[1..n -> RecordChoices] : n \in 0..MaxRecords}}

MacFace == [platform_id |-> 1, name_id |-> 4, data |-> encode(1, <<65, 114>>)]

WinFace == [platform_id |-> 3, name_id |-> 4, data |-> encode(3, <<65, 114>>)]

MacOther == [platform_id |-> 1, name_id |-> 6, data |-> encode(1, <<66>>)]

SomeRecords == {<<MacFace, WinFace>>, <<MacOther>>}

TagLists ==
    {<<head_tag, name_tag>>, <<name_tag, head_tag>>, <<glyf_tag, head_tag, name_tag>>,
     <<name_tag>>, <<head_tag>>, <<glyf_tag>>, <<>>}

\* Any directory, magic number and placement of the tables
TableLayouts ==
    {[tags |-> ts, magic |-> m, head_at |-> h, name_at |-> n, string_at |-> s,
      recs |-> recs, overrun |-> 0, cut |-> 0] :
        ts \in TagLists, m \in {HEAD_TABLE_MAGIC, HEAD_TABLE_MAGIC - 1},
        h \in {"table", "end", "beyond"}, n \in {"table", "end", "beyond"},
        s \in {"storage", "beyond"}, recs \in SomeRecords}

\* A file that stops early, anywhere
CutLayouts ==
    UNION {{[b EXCEPT !.cut = c] : c \in 1..Total(b)} :
           b \in {[Plain(<<MacFace, WinFace>>) EXCEPT !.tags = ts, !.magic = m] :
                     ts \in {<<head_tag, name_tag>>, <<glyf_tag, name_tag, head_tag>>},
                     m \in {HEAD_TABLE_MAGIC, HEAD_TABLE_MAGIC - 1}}}

InitTtf ==
    /\ PackIdle
    /\ ParseIdle
    /\ layout \in NameLayouts \cup TableLayouts \cup CutLayouts
    /\ file = Build(layout)
    /\ ttf = [kind |-> "idle", at |-> 0, names |-> <<>>]
    /\ font = [kind |-> "idle", extension |-> "", face_names |-> <<>>]
    /\ again = [kind |-> "idle", extension |-> "", face_names |-> <<>>]
    /\ tpc = "ready"

\* FontFile::from_bytes(&file)
FromBytes ==
    /\ tpc = "ready"
    /\ ttf' = TtfFile_parse(file)
    /\ font' \in from_bytes(ttf')
    /\ tpc' = "returned"
    /\ UNCHANGED <<layout, file, again>>
    /\ UNCHANGED packvars
    /\ UNCHANGED parsevars

\* FontFile::from_bytes(&file) once more, by a caller that got a result
FromBytesAgain ==
    /\ tpc = "returned"
    /\ font.kind # "panic"
    /\ again' \in from_bytes(TtfFile_parse(file))
    /\ tpc' = "again"
    /\ UNCHANGED <<layout, file, ttf, font>>
    /\ UNCHANGED packvars
    /\ UNCHANGED parsevars

NextTtf == FromBytes \/ FromBytesAgain

SpecTtf == InitTtf /\ [][NextTtf]_vars

\* ------------------------------------------------------------------------
\* Inputs of the packer
\* ------------------------------------------------------------------------
Dims == 0..MaxDim

\* The keys of n glyphs: all different, or the last glyph repeating the first key
KeySeqs(n) ==
    {[i \in 1..n |-> i]} \cup {[i \in 1..n |-> IF i = n THEN 1 ELSE i]}

\* n glyphs with the given keys, widths and heights
GridSeq(n, ks, ws, hs) == [i \in 1..n |-> RasterizedGlyph(ks[i], ws[i], hs[i])]

\* The end-to-end scenario of the specification: A, B, C are keys 1, 2, 3
ScenarioA == RasterizedGlyph(1, 10, 20)
ScenarioB == RasterizedGlyph(2, 15, 15)
ScenarioC == RasterizedGlyph(3, 5, 30)

ScenarioSeqs ==
    {s \in [1..3 -> {ScenarioA, ScenarioB, ScenarioC}] :
        \A i, j \in 1..3 : i # j => s[i] # s[j]}

\* ------------------------------------------------------------------------
\* The packing of one input
\* ------------------------------------------------------------------------
Init ==
    /\ \/ \E n \in 0..MaxItems :
             \E ks \in KeySeqs(n), ws \in [1..n -> Dims], hs \in [1..n -> Dims] :
                glyphs = GridSeq(n, ks, ws, hs)
       \/ glyphs \in ScenarioSeqs
    /\ to_pack = <<>>
    /\ nodes = <<>>
    /\ root = None
    /\ items = <<>>
    /\ idx = 0
    /\ last = [how |-> "none", node |-> None]
    /\ width = 0
    /\ height = 0
    /\ pc = "start"
    /\ ParseIdle
    /\ TtfIdle

\* bin_pack up to the loop: collect, sort, Packer::new
Collect ==
    /\ pc = "start"
    /\ LET v == sort_by(glyphs)
           s == first_size(v)
           p == Packer_new(s[1], s[2])
       IN  /\ to_pack' = v
           /\ nodes' = p.nodes
           /\ root' = p.root
    /\ items' = <<>>
    /\ idx' = 1
    /\ pc' = "loop"
    /\ UNCHANGED <<glyphs, last, width, height>>
    /\ UNCHANGED parsevars
    /\ UNCHANGED ttfvars

\* One iteration of the for loop
Fit ==
    /\ pc = "loop"
    /\ idx <= Len(to_pack)
    /\ LET e == to_pack[idx]
           s == size_f(e)
           k == key_f(e)
           f == fit(nodes, root, s[1], s[2])
       IN  /\ nodes' = f.nodes
           /\ root' = f.root
           /\ last' = [how |-> f.how, node |-> f.node]
           /\ IF f.how \in Fatal
              THEN /\ pc' = "panic"
                   /\ UNCHANGED <<items, idx>>
              ELSE /\ items' = insert(items, k, f.rect)
                   /\ idx' = idx + 1
                   /\ pc' = "loop"
    /\ UNCHANGED <<glyphs, to_pack, width, height>>
    /\ UNCHANGED parsevars
    /\ UNCHANGED ttfvars

\* The loop is over: the PackResult is built
Finish ==
    /\ pc = "loop"
    /\ idx > Len(to_pack)
    /\ width' = nodes[root].width
    /\ height' = nodes[root].height
    /\ pc' = "done"
    /\ UNCHANGED <<glyphs, to_pack, nodes, root, items, idx, last>>
    /\ UNCHANGED parsevars
    /\ UNCHANGED ttfvars

Next == Collect \/ Fit \/ Finish

Spec == Init /\ [][Next]_vars

\* ------------------------------------------------------------------------
\* bin_pack as a function of its input, for comparing two packings
\* ------------------------------------------------------------------------
RECURSIVE pack_loop(_, _, _, _, _)
pack_loop(v, i, ns, rt, m) ==
    IF i > Len(v)
    THEN [width |-> ns[rt].width, height |-> ns[rt].height, items |-> m, panicked |-> FALSE]
    ELSE LET s == size_f(v[i])
             f == fit(ns, rt, s[1], s[2])
         IN  IF f.how \in Fatal
             THEN [width |-> 0, height |-> 0, items |-> m, panicked |-> TRUE]
             ELSE pack_loop(v, i + 1, f.nodes, f.root, insert(m, key_f(v[i]), f.rect))

bin_pack(in) ==
    LET v == sort_by(in)
        s == first_size(v)
        p == Packer_new(s[1], s[2])
    IN  pack_loop(v, 1, p.nodes, p.root, <<>>)

\* ------------------------------------------------------------------------
\* Vocabulary of the properties
\* ------------------------------------------------------------------------
AllPositive(v) == \A i \in DOMAIN v : v[i].width > 0 /\ v[i].height > 0

DistinctKeys(v) == \A i, j \in DOMAIN v : i # j => v[i].character # v[j].character

ZeroSized(e) == e.width = 0 \/ e.height = 0

\* Two rectangles share interior points
Overlap(a, b) ==
    /\ a.width > 0 /\ a.height > 0 /\ b.width > 0 /\ b.height > 0
    /\ a.x < b.x + b.width /\ b.x < a.x + a.width
    /\ a.y < b.y + b.height /\ b.y < a.y + a.height

RECURSIVE SumOf(_, _)
SumOf(v, field) == IF v = <<>> THEN 0 ELSE Head(v)[field] + SumOf(Tail(v), field)

MaxOf(v, field) == CHOOSE m \in {v[i][field] : i \in DOMAIN v} :
                       \A i \in DOMAIN v : v[i][field] <= m

Done == pc = "done"

\* The item placed by the latest iteration of the loop
Placed == to_pack[idx - 1]

\* ------------------------------------------------------------------------
\* C1: for items of positive width and height, no two rectangles of the
\* returned items map overlap (pairwise disjoint interiors).
\* ------------------------------------------------------------------------
C1_NoTwoRectsOverlap ==
    (Done /\ AllPositive(glyphs)) =>
        \A k1, k2 \in DOMAIN items : k1 # k2 => ~Overlap(items[k1], items[k2])

\* ------------------------------------------------------------------------
\* C2: the rectangle recorded for an item has the position of the node
\* chosen for it and exactly the item's own width and height, whether the
\* node was found free or made by growing the canvas.
\* ------------------------------------------------------------------------
C2_RectHasItemSize ==
    (pc \in {"loop", "done"} /\ idx > 1) =>
        LET r == items[Placed.character] IN
        /\ r.x = nodes[last.node].x
        /\ r.y = nodes[last.node].y
        /\ r.width = Placed.width
        /\ r.height = Placed.height

\* ------------------------------------------------------------------------
\* C3: for items of positive size with pairwise distinct keys, every item
\* is placed exactly once: one call of fit per input item, and the items
\* map has exactly one entry per input item, under that item's key.
\* ------------------------------------------------------------------------
C3_EveryItemPlacedOnce ==
    (Done /\ AllPositive(glyphs) /\ DistinctKeys(glyphs)) =>
        /\ DOMAIN items = {glyphs[i].character : i \in DOMAIN glyphs}
        /\ Cardinality(DOMAIN items) = Len(glyphs)
        /\ idx = Len(glyphs) + 1
        /\ Len(to_pack) = Len(glyphs)
        /\ \A i \in DOMAIN glyphs : Cardinality({j \in DOMAIN to_pack : to_pack[j] = glyphs[i]}) = 1

C3_Witness ==
    /\ Done /\ AllPositive(glyphs) /\ DistinctKeys(glyphs)
    /\ Len(glyphs) >= 3
    /\ \E i, j \in DOMAIN glyphs : i # j /\ size_f(glyphs[i]) = size_f(glyphs[j])

\* ------------------------------------------------------------------------
\* C4: every returned rectangle lies inside the returned canvas:
\* x + width <= result width and y + height <= result height.
\* ------------------------------------------------------------------------
C4_RectsInsideCanvas ==
    Done => \A k \in DOMAIN items :
                /\ items[k].x + items[k].width <= width
                /\ items[k].y + items[k].height <= height

C4_Witness ==
    /\ Done
    /\ \E k1, k2 \in DOMAIN items :
          /\ items[k1].x > 0 /\ items[k1].x + items[k1].width = width
          /\ items[k2].y > 0 /\ items[k2].y + items[k2].height = height

\* ------------------------------------------------------------------------
\* C5: with the max(width, height) descending order of pack_glyphs, packing
\* items of non-negative size never ends in "Invalid sorting!": whenever no
\* free node fits, one of can_right and can_down holds and the find_node
\* inside grow_right / grow_down finds a node.
\* ------------------------------------------------------------------------
C5_NeverInvalidSorting ==
    /\ last.how \notin {"invalid_sorting", "expect_failed"}
    /\ (pc = "loop" /\ idx <= Len(to_pack)) =>
          LET s == size_f(to_pack[idx]) IN
          find_node(nodes, root, s[1], s[2]) = None =>
              /\ can_right(nodes, root, s[1], s[2]) \/ can_down(nodes, root, s[1], s[2])
              /\ fit(nodes, root, s[1], s[2]).how \in {"right", "down"}

C5_Witness ==
    /\ pc = "loop" /\ idx > 1
    /\ last.how \in {"right", "down"}
    /\ ZeroSized(Placed)

\* ------------------------------------------------------------------------
\* C6: for a non-empty input of positive sizes, the canvas width is at most
\* the sum of the item widths and at least the largest item width, and the
\* same holds of the height.
\* ------------------------------------------------------------------------
C6_CanvasBounds ==
    (Done /\ glyphs # <<>> /\ AllPositive(glyphs)) =>
        /\ width <= SumOf(glyphs, "width")
        /\ width >= MaxOf(glyphs, "width")
        /\ height <= SumOf(glyphs, "height")
        /\ height >= MaxOf(glyphs, "height")

C6_Witness ==
    /\ Done /\ glyphs # <<>> /\ AllPositive(glyphs)
    /\ width < SumOf(glyphs, "width") /\ width > MaxOf(glyphs, "width")
    /\ height < SumOf(glyphs, "height")

\* ------------------------------------------------------------------------
\* C7: zero-sized items do not affect the layout of the others: the canvas
\* and the rectangle of every other item are those of the packing without
\* the zero-sized items, and a zero-sized item's rectangle has zero area.
\* ------------------------------------------------------------------------
C7_ZeroSizedItemsDoNotAffectLayout ==
    (Done /\ DistinctKeys(glyphs)) =>
        LET rest == SelectSeq(glyphs, LAMBDA e : ~ZeroSized(e))
            r == bin_pack(rest)
        IN  /\ width = r.width
            /\ height = r.height
            /\ \A i \in DOMAIN glyphs :
                  IF ZeroSized(glyphs[i])
                  THEN items[glyphs[i].character].width * items[glyphs[i].character].height = 0
                  ELSE items[glyphs[i].character] = r.items[glyphs[i].character]

\* ------------------------------------------------------------------------
\* C8: packing A=(10,20), B=(15,15), C=(5,30) places C first on an initial
\* 5x30 canvas at (0,0), then grows the canvas for A and for B; the three
\* returned rectangles do not overlap and lie inside the returned canvas.
\* ------------------------------------------------------------------------
C8_Scenario ==
    (glyphs \in ScenarioSeqs /\ pc # "start") =>
        /\ to_pack[1] = ScenarioC
        /\ nodes[1] = [Node_new(0, 0, 5, 30) EXCEPT !.occupied = idx > 1,
                                                     !.down = nodes[1].down,
                                                     !.right = nodes[1].right]
        /\ idx = 1 => root = 1
        /\ idx = 2 => /\ last = [how |-> "found", node |-> 1]
                      /\ items[ScenarioC.character].x = 0
                      /\ items[ScenarioC.character].y = 0
        /\ idx > 2 => last.how \in {"right", "down"}
        /\ Done =>
              /\ DOMAIN items = {ScenarioA.character, ScenarioB.character, ScenarioC.character}
              /\ items[ScenarioC.character].x = 0 /\ items[ScenarioC.character].y = 0
              /\ \A k1, k2 \in DOMAIN items : k1 # k2 => ~Overlap(items[k1], items[k2])
              /\ \A k \in DOMAIN items :
                    /\ items[k].x + items[k].width <= width
                    /\ items[k].y + items[k].height <= height

C8_Witness ==
    /\ Done /\ glyphs \in ScenarioSeqs
    /\ glyphs[1] # ScenarioC
    /\ width > 5

\* ------------------------------------------------------------------------
\* C9: packing no items returns a 0x0 canvas and an empty items map,
\* without a call of fit and without error.
\* ------------------------------------------------------------------------
C9_EmptyInput ==
    (glyphs = <<>> /\ pc # "start") =>
        /\ pc \in {"loop", "done"}
        /\ last.how = "none"
        /\ items = <<>>
        /\ nodes = <<Node_new(0, 0, 0, 0)>>
        /\ Done => (width = 0 /\ height = 0)

C9_Witness == Done /\ glyphs = <<>> /\ DOMAIN items = {}

\* ------------------------------------------------------------------------
\* C10: for every width 1, 2, 4, 8 and both byte orders, parse_be
\* (parse_le) of the big-endian (little-endian) encoding of a value v
\* followed by any further bytes returns exactly v and advances the cursor
\* by exactly the width of the type, leaving the further bytes.
\* ------------------------------------------------------------------------
Called == ppc = "returned"

C10_RoundTrip ==
    (Called /\ known # NoKnown) =>
        /\ parsed.ok
        /\ swap_bytes(parsed.value) = known.be
        /\ parsed.value = known.le
        /\ known.has_number => number(ty, parsed.value) = known.number
        /\ Len(input) = Len(bytes) - ty.size
        /\ input = SubSeq(bytes, ty.size + 1, Len(bytes))

C10_Witness ==
    /\ Called /\ known # NoKnown
    /\ order = "be" /\ ty.size = 8 /\ ty.signed
    /\ known.has_number /\ known.number < 0
    /\ Len(input) = MaxTail /\ input[1] # input[2]

\* ------------------------------------------------------------------------
\* C11: the value parse_be returns is the big-endian reading of the bytes
\* it consumed (first byte most significant), the value parse_le returns is
\* their little-endian reading, whatever the byte order of the machine.
\* ------------------------------------------------------------------------
Consumed == SubSeq(bytes, 1, ty.size)

C11_ValueIndependentOfHost ==
    (Called /\ parsed.ok) =>
        /\ order = "be" => \A j \in 1..ty.size : parsed.value[j] = Consumed[ty.size + 1 - j]
        /\ order = "le" => \A j \in 1..ty.size : parsed.value[j] = Consumed[j]

\* ------------------------------------------------------------------------
\* C12: parsing an integer of width n from a cursor of fewer than n bytes
\* returns an error, for every width and both byte orders: it never
\* succeeds and never indexes a byte at or beyond the cursor's length.
\* ------------------------------------------------------------------------
C12_TruncationDetected ==
    (Called /\ Len(bytes) < ty.size) =>
        /\ ~parsed.ok
        /\ parsed # IndexPanic
        /\ parsed = Err

C12_Witness ==
    /\ Called /\ Len(bytes) = ty.size - 1
    /\ ty.size = 8 /\ order = "be"
    /\ \E i, j \in DOMAIN bytes : bytes[i] # bytes[j]

\* ------------------------------------------------------------------------
\* Vocabulary of the font parser's properties, read off the file's layout
\* ------------------------------------------------------------------------
Returned == tpc = "returned"

\* The file holds all the directory entries its offset subtable declares
DirectoryComplete == FileLen(layout) >= DirEnd(layout)

Lists(tag) == \E i \in DOMAIN layout.tags : layout.tags[i] = tag

\* The directory's head entry points at a head table that is there in full
HeadPresent ==
    /\ Lists(head_tag)
    /\ layout.head_at = "table"
    /\ FileLen(layout) >= HeadPos(layout) + 54

\* ------------------------------------------------------------------------
\* C13: a byte sequence with a complete table directory and a fully present
\* head table whose magic number is not 0x5F0F3CF5 is rejected: TtfFile::parse
\* returns Err and FontFile::from_bytes returns FormatError, whatever the
\* name table and the other tables are.
\* ------------------------------------------------------------------------
C13_BadMagicRejected ==
    (Returned /\ DirectoryComplete /\ HeadPresent
        /\ layout.magic # HEAD_TABLE_MAGIC) =>
        /\ ttf.kind = "err"
        /\ font.kind = "format_error"

\* The case of a file whose only flaw is the magic number
C13_Witness ==
    /\ Returned /\ DirectoryComplete /\ HeadPresent
    /\ layout.magic # HEAD_TABLE_MAGIC
    /\ Lists(name_tag) /\ layout.name_at = "table" /\ layout.string_at = "storage"
    /\ layout.cut = 0 /\ layout.overrun = 0
    /\ \E k \in DOMAIN layout.recs : layout.recs[k].name_id = 4
    /\ ttf = TtfErr(138)
    /\ font = FormatError

\* ------------------------------------------------------------------------
\* C14: when the byte sequence ends before all the directory entries the
\* offset subtable declares have been read, parsing fails with FormatError.
\* ------------------------------------------------------------------------
C14_TruncatedDirectoryIsFormatError ==
    (Returned /\ ~DirectoryComplete) => font.kind = "format_error"

\* The tables are where the directory says and the magic number is right
TablesWellPlaced ==
    /\ DirectoryComplete
    /\ HeadPresent
    /\ layout.magic = HEAD_TABLE_MAGIC
    /\ Lists(name_tag)
    /\ layout.name_at = "table"

\* The name table's header and all its records are in the file
NameRecordsPresent == FileLen(layout) >= StoragePos(layout)

\* The end of record k's string inside the storage, as its offset and length say
RecordEnd(k) ==
    SumLen(layout.recs, k) + (IF k = Len(layout.recs) THEN layout.overrun ELSE 0)

\* The bytes from name_table_base + string_offset to the end of the input
StorageLen == FileLen(layout) - StoragePos(layout)

\* ------------------------------------------------------------------------
\* C15: a name record whose offset + length exceeds the string storage
\* region makes parsing fail with FormatError; the parser never slices
\* beyond the available bytes.
\* ------------------------------------------------------------------------
C15_RecordOverrunIsFormatError ==
    (Returned /\ TablesWellPlaced /\ NameRecordsPresent
        /\ layout.string_at = "storage"
        /\ \E k \in DOMAIN layout.recs : RecordEnd(k) > StorageLen) =>
        font.kind = "format_error"

\* A listed table that the directory places beyond the end of the file
Beyond(tag, at) == Lists(tag) /\ at = "beyond"

\* A listed head table that the end of the file cuts off
HeadCutOff ==
    /\ Lists(head_tag)
    /\ \/ layout.head_at = "end"
       \/ layout.head_at = "table" /\ FileLen(layout) < HeadPos(layout) + 54

\* A listed name table whose header or records the end of the file cuts off
NameCutOff ==
    /\ Lists(name_tag)
    /\ \/ layout.name_at = "end"
       \/ layout.name_at = "table" /\ ~NameRecordsPresent

\* ------------------------------------------------------------------------
\* C16: a head or name directory entry whose offset lies beyond the end of
\* the byte sequence, or whose table is cut off by the end of the byte
\* sequence, yields a recoverable FormatError and never a panic.
\* ------------------------------------------------------------------------
C16_MisplacedTableIsFormatError ==
    (Returned /\ DirectoryComplete
        /\ \/ Beyond(head_tag, layout.head_at) \/ HeadCutOff
           \/ Beyond(name_tag, layout.name_at) \/ NameCutOff) =>
        font.kind = "format_error"

\* ------------------------------------------------------------------------
\* C17: when the table directory has no entry tagged "head", or none tagged
\* "name", FontFile::from_bytes returns FormatError and no descriptor.
\* ------------------------------------------------------------------------
C17_MissingTableIsFormatError ==
    (Returned /\ DirectoryComplete /\ (~Lists(head_tag) \/ ~Lists(name_tag))) =>
        font.kind = "format_error"

\* The indices of the name records of a name ID
RecordsOf(id) == {k \in DOMAIN layout.recs : layout.recs[k].name_id = id}

Elements(s) == {s[i] : i \in DOMAIN s}

\* ------------------------------------------------------------------------
\* C18: FontFile::from_bytes returns a descriptor exactly when the TrueType
\* parse succeeds and some name record has name ID 4; the descriptor has
\* extension "ttf" and a non-empty face-name list whose elements are the
\* distinct decoded strings of the name-ID-4 records; in every other case
\* it returns FormatError.
\* ------------------------------------------------------------------------
C18_DescriptorExactlyOnFullName ==
    Returned =>
        IF ttf.kind = "ok" /\ RecordsOf(4) # {}
        THEN /\ font.kind = "ok"
             /\ font.extension = "ttf"
             /\ font.face_names # <<>>
             /\ Elements(font.face_names)
                    = {text_of(layout.recs[k].platform_id, layout.recs[k].data) :
                          k \in RecordsOf(4)}
             /\ Cardinality(Elements(font.face_names)) = Len(font.face_names)
        ELSE font.kind = "format_error"

\* ------------------------------------------------------------------------
\* C19: a record of platform 1 holding the ASCII bytes of a text and a
\* record of another platform holding the big-endian UTF-16 code units of
\* the same text decode to the same string: under one name ID the two
\* contribute a single element to that name ID's set of strings.
\* ------------------------------------------------------------------------
C19_SameTextOnBothPlatforms ==
    (Returned /\ ttf.kind = "ok") =>
        \A i, j \in DOMAIN layout.recs : \A t \in Texts :
            (/\ layout.recs[i].name_id = layout.recs[j].name_id
             /\ layout.recs[i].platform_id = 1
             /\ layout.recs[i].data = t
             /\ layout.recs[j].platform_id # 1
             /\ layout.recs[j].data = utf16be(t)) =>
                /\ t \in ttf.names[layout.recs[i].name_id]
                /\ Cardinality(ttf.names[layout.recs[i].name_id])
                       < Cardinality(RecordsOf(layout.recs[i].name_id))

C19_Witness ==
    /\ Returned /\ ttf.kind = "ok"
    /\ layout.recs = <<[platform_id |-> 3, name_id |-> 4, data |-> <<0, 65, 0, 114>>],
                       [platform_id |-> 1, name_id |-> 4, data |-> <<65, 114>>]>>
    /\ ttf.names[4] = {<<65, 114>>}
    /\ font.face_names = <<<<65, 114>>>>

\* The canvas has just grown: the old root hangs below the new one (grown
\* right) or to the right of it (grown down)
GrewRight == root' # root /\ nodes'[root'].down = root

GrewDown == root' # root /\ nodes'[root'].right = root

\* ------------------------------------------------------------------------
\* C20: when no free node fits an item (w, h), the canvas grows right if
\* h <= root height and root height > root width + w; otherwise down if
\* w <= root width and root width > root height + h; otherwise right if
\* h <= root height; otherwise down if w <= root width.
\* ------------------------------------------------------------------------
C20_GrowthDirection ==
    [][(pc = "loop" /\ idx <= Len(to_pack) /\ root' # root) =>
          LET w == to_pack[idx].width
              h == to_pack[idx].height
              W == nodes[root].width
              H == nodes[root].height
              right == GrewRight /\ nodes'[root'].width = W + w
                                 /\ nodes'[root'].height = H
              down == GrewDown /\ nodes'[root'].width = W
                               /\ nodes'[root'].height = H + h
          IN  IF h <= H /\ H > W + w THEN right
              ELSE IF w <= W /\ W > H + h THEN down
              ELSE IF h <= H THEN right
              ELSE IF w <= W THEN down
              ELSE FALSE]_vars

\* The canvas has grown down for the latest item although it could have
\* grown right: the item was no higher than the canvas, and the canvas was
\* wider than its height plus the item's
C20_Witness ==
    /\ pc \in {"loop", "done"}
    /\ last.how = "down"
    /\ LET e == to_pack[idx - 1]
           W == nodes[root].width
           H == nodes[root].height - e.height
       IN  /\ e.height <= H
           /\ e.width <= W
           /\ W > H + e.height
           /\ ~(H > W + e.width)

\* A step of the packing loop that replaces the root
Grows == pc = "loop" /\ idx <= Len(to_pack) /\ root' # root

\* The box of a node
Box(n) == Rect(n.x, n.y, n.width, n.height)

\* ------------------------------------------------------------------------
\* C21: growing changes exactly one canvas dimension by exactly the item's
\* size in that direction. grow_right makes the root item_width wider with
\* the height unchanged, keeps the previous root unchanged as a child and
\* places the item at (old width, 0) in a new strip of width item_width and
\* height old canvas height; grow_down makes the root item_height taller
\* with the width unchanged and places the item at (0, old height) in a new
\* strip of the full old width and height item_height.
\* ------------------------------------------------------------------------
C21_GrowthFrame ==
    [][Grows =>
          LET e == to_pack[idx]
              W == nodes[root].width
              H == nodes[root].height
              new == nodes'[root']
              strip == IF GrewRight THEN new.right ELSE new.down
              at == items'[e.character]
          IN  /\ GrewRight \/ GrewDown
              /\ nodes'[root] = nodes[root]
              /\ Box(new) = IF GrewRight THEN Rect(0, 0, W + e.width, H)
                                         ELSE Rect(0, 0, W, H + e.height)
              /\ Box(nodes'[strip]) = IF GrewRight THEN Rect(W, 0, e.width, H)
                                                   ELSE Rect(0, H, W, e.height)
              /\ last'.node = strip
              /\ at.x = (IF GrewRight THEN W ELSE 0)
              /\ at.y = (IF GrewRight THEN 0 ELSE H)]_vars

\* The canvas has grown down by a strip that is wider than the item in it
C21_Witness ==
    /\ pc \in {"loop", "done"}
    /\ last.how = "down"
    /\ nodes[root].down = last.node
    /\ nodes[last.node].width > Placed.width
    /\ nodes[last.node].height = Placed.height
    /\ nodes[last.node].y > 0
    /\ items[Placed.character].y = nodes[root].height - Placed.height

\* The occupied nodes that have both children
Parents == {n \in DOMAIN nodes : nodes[n].occupied /\ nodes[n].down # None
                                    /\ nodes[n].right # None}

\* The children of n are what is left of n's box around an item in its
\* top-left corner: d a bottom strip of the full width below the item, r a
\* strip to the right of the item with the item's height
Strips(n, d, r) ==
    /\ d.x = n.x /\ d.width = n.width
    /\ d.y >= n.y /\ d.y + d.height = n.y + n.height
    /\ r.y = n.y /\ r.height = d.y - n.y
    /\ r.x >= n.x /\ r.x + r.width = n.x + n.width

\* The children of n stand side by side over n's full height: d on the
\* left, r to the right of it
SideBySide(n, d, r) ==
    /\ d.x = n.x /\ d.y = n.y /\ d.height = n.height
    /\ r.x = d.x + d.width /\ r.y = n.y /\ r.height = n.height
    /\ r.x + r.width = n.x + n.width

\* ------------------------------------------------------------------------
\* C22: in every state of the packing tree, each occupied node's children
\* partition what is left of its box after an item placed in its top-left
\* corner: the down child is a bottom strip of the node's full width below
\* the item, the right child a strip to the right of the item with the
\* item's height; for nodes occupied by split_node and for the roots
\* created by grow_right and grow_down.
\* ------------------------------------------------------------------------
C22_ChildrenAreStrips ==
    \A n \in Parents :
        Strips(nodes[n], nodes[nodes[n].down], nodes[nodes[n].right])

\* C22 as the code has it: the children are such strips, except at a root
\* created by grow_right, at (0, 0), whose down child is the previous root
\* over the full height and whose right child is the new strip of the full
\* height to the right of it.
C22_ChildrenPartition ==
    \A n \in Parents :
        \/ Strips(nodes[n], nodes[nodes[n].down], nodes[nodes[n].right])
        \/ /\ nodes[n].x = 0 /\ nodes[n].y = 0
           /\ nodes[nodes[n].down].occupied
           /\ SideBySide(nodes[n], nodes[nodes[n].down], nodes[nodes[n].right])

\* A root made by grow_right for an item of positive width, above a node
\* that split_node occupied for an item smaller than the node
C22_Witness ==
    /\ root \in Parents
    /\ nodes[nodes[root].down].width < nodes[root].width
    /\ nodes[nodes[root].down].height > 0
    /\ \E n \in Parents :
          /\ nodes[nodes[n].down].height > 0
          /\ nodes[nodes[n].right].width > 0
          /\ nodes[nodes[n].right].height > 0

\* The unoccupied nodes below n in the order of a depth-first traversal
\* that goes through the whole right subtree before the down subtree
RECURSIVE FreeNodes(_, _)
FreeNodes(ns, n) ==
    IF ns[n].occupied THEN FreeNodes(ns, ns[n].right) \o FreeNodes(ns, ns[n].down)
    ELSE <<n>>

\* The first node of the sequence that is at least w wide and h high
FirstFit(ns, free, w, h) ==
    LET fits == {i \in DOMAIN free : ns[free[i]].width >= w /\ ns[free[i]].height >= h}
    IN  IF fits = {} THEN None
        ELSE free[CHOOSE i \in fits : \A j \in fits : i <= j]

\* ------------------------------------------------------------------------
\* C23: find_node returns the first unoccupied node, in a depth-first
\* traversal that visits the whole right subtree before the down subtree,
\* whose width >= w and height >= h; it returns none only if no unoccupied
\* node of the tree satisfies both bounds. Seen on the loop: the item goes
\* into that node when there is one, and the canvas grows only when there
\* is none.
\* ------------------------------------------------------------------------
C23_FirstFitInRightFirstOrder ==
    [][(pc = "loop" /\ idx <= Len(to_pack)) =>
          LET w == to_pack[idx].width
              h == to_pack[idx].height
              first == FirstFit(nodes, FreeNodes(nodes, root), w, h)
          IN  /\ find_node(nodes, root, w, h) = first
              /\ IF first = None
                 THEN root' # root \/ pc' = "panic"
                 ELSE root' = root /\ last' = [how |-> "found", node |-> first]]_vars

\* The item went into a free node of the down subtree that is not the
\* first free node: the free nodes before it were too small
C23_Witness ==
    /\ pc \in {"loop", "done"}
    /\ last.how = "found"
    /\ \E n \in Parents :
          /\ nodes[nodes[n].down].occupied
          /\ nodes[n].down = last.node
          /\ ~nodes[nodes[n].right].occupied

\* A step of the packing loop that placed its item
Places == pc = "loop" /\ idx <= Len(to_pack) /\ pc' = "loop"

\* A node that is free and has no children
FreeLeaf(x, y, w, h) ==
    [occupied |-> FALSE, x |-> x, y |-> y, width |-> w, height |-> h,
     down |-> None, right |-> None]

\* ------------------------------------------------------------------------
\* C24: split_node on a free node (x, y, W, H) for an item (w, h) with
\* w <= W and h <= H marks the node occupied and gives it a down child
\* (x, y+h, W, H-h) and a right child (x+w, y, W-w, h), both unoccupied and
\* childless; the node's own position and size are unchanged.
\* ------------------------------------------------------------------------
C24_SplitNode ==
    [][Places =>
          LET w == to_pack[idx].width
              h == to_pack[idx].height
              n == last'.node
              node == nodes'[n]
          IN  /\ n \in DOMAIN nodes =>
                    /\ ~nodes[n].occupied
                    /\ nodes[n].down = None /\ nodes[n].right = None
                    /\ Box(node) = Box(nodes[n])
              /\ w <= node.width /\ h <= node.height
              /\ node.occupied
              /\ node.down \notin DOMAIN nodes /\ node.right \notin DOMAIN nodes
              /\ node.down # node.right
              /\ nodes'[node.down]
                     = FreeLeaf(node.x, node.y + h, node.width, node.height - h)
              /\ nodes'[node.right]
                     = FreeLeaf(node.x + w, node.y, node.width - w, h)]_vars

\* A free node that was there before has been split for an item smaller
\* than it in both directions
C24_Witness ==
    /\ pc \in {"loop", "done"}
    /\ last.how = "found"
    /\ nodes[last.node].occupied
    /\ nodes[last.node].x + nodes[last.node].y > 0
    /\ nodes[nodes[last.node].down].height > 0
    /\ nodes[nodes[last.node].right].width > 0
    /\ nodes[nodes[last.node].right].height = Placed.height

\* The larger side of a glyph: what pack_glyphs orders by
LargerSide(e) == IF e.width >= e.height THEN e.width ELSE e.height

\* v is u rearranged so that the larger sides do not increase, glyphs of
\* equal larger side staying in the order they have in u
StablyDescending(u, v) ==
    /\ Len(v) = Len(u)
    /\ \E p \in [DOMAIN v -> DOMAIN u] :
          /\ \A i \in DOMAIN v : v[i] = u[p[i]]
          /\ \A i, j \in DOMAIN v : i < j =>
                /\ p[i] # p[j]
                /\ LargerSide(v[i]) >= LargerSide(v[j])
                /\ LargerSide(v[i]) = LargerSide(v[j]) => p[i] < p[j]

\* ------------------------------------------------------------------------
\* C25: bin_pack places the items in descending order of the ordering
\* function over (width, height), for pack_glyphs non-increasing
\* max(width, height); items that compare equal keep their input order; the
\* initial root node has exactly the dimensions of the first item in that
\* order, which is therefore placed at (0, 0).
\* ------------------------------------------------------------------------
C25_DescendingStableOrder ==
    /\ (pc = "loop" /\ idx = 1) =>
          /\ StablyDescending(glyphs, to_pack)
          /\ nodes = <<FreeLeaf(0, 0, IF to_pack = <<>> THEN 0 ELSE to_pack[1].width,
                                      IF to_pack = <<>> THEN 0 ELSE to_pack[1].height)>>
          /\ root = 1
    /\ (pc = "loop" /\ idx = 2) =>
          /\ last = [how |-> "found", node |-> 1]
          /\ items = (to_pack[1].character :> Rect(0, 0, to_pack[1].width,
                                                    to_pack[1].height))
    /\ pc \in {"loop", "done"} =>
          DOMAIN items = {to_pack[i].character : i \in 1..(idx - 1)}

\* Three glyphs of which the last is the largest and the first two compare
\* equal without being the same: the sort moved the last one to the front
\* and kept the other two in their order; the largest one has been placed
C25_Witness ==
    /\ pc = "loop" /\ idx = 2
    /\ Len(glyphs) = 3
    /\ LargerSide(glyphs[1]) = LargerSide(glyphs[2])
    /\ glyphs[1] # glyphs[2]
    /\ LargerSide(glyphs[3]) > LargerSide(glyphs[1])
    /\ to_pack = <<glyphs[3], glyphs[1], glyphs[2]>>
    /\ items[glyphs[3].character].x = 0

\* The name IDs of the file's name records
NameIds == {layout.recs[k].name_id : k \in DOMAIN layout.recs}

\* The decoded strings of the name records of a name ID
StringsOf(id) ==
    {text_of(layout.recs[k].platform_id, layout.recs[k].data) : k \in RecordsOf(id)}

\* ------------------------------------------------------------------------
\* C26: after a successful parse, the string set stored for a name ID n is
\* exactly the set of decoded strings of all name records with name_id = n:
\* a later record with the same name ID adds to the set and never replaces
\* it, and a name ID with no record has no entry.
\* ------------------------------------------------------------------------
C26_NamesAccumulate ==
    (Returned /\ ttf.kind = "ok") =>
        /\ DOMAIN ttf.names = NameIds
        /\ \A id \in NameIds : ttf.names[id] = StringsOf(id)
        /\ \A id \in {4, 6} :
              /\ TtfFile_has_name(ttf, id) <=> RecordsOf(id) # {}
              /\ TtfFile_name(ttf, id) = StringsOf(id)

\* Two records of name ID 4 with different strings, none of name ID 6
C26_Witness ==
    /\ Returned /\ ttf.kind = "ok"
    /\ Len(layout.recs) = 2
    /\ Cardinality(ttf.names[4]) = 2
    /\ ~TtfFile_has_name(ttf, 6)
    /\ <<66>> \in TtfFile_name(ttf, 4)

\* ------------------------------------------------------------------------
\* C27: font parsing is deterministic: parsing the same byte sequence twice
\* yields the same outcome and, on success, the same descriptor, including
\* the same order of the face names in the face-name list.
\* ------------------------------------------------------------------------
C27_SameBytesSameDescriptor == tpc = "again" => again = font

\* What the atlas example draws for the glyph e: the glyph's own size at the
\* position of the rectangle recorded under its key
Footprint(e) == Rect(items[e.character].x, items[e.character].y, e.width, e.height)

\* ------------------------------------------------------------------------
\* C28: for items with positive sizes, the footprints obtained by drawing
\* each item at its returned position with the item's own size are pairwise
\* non-overlapping and lie inside the canvas, after any sequence of
\* placements.
\* ------------------------------------------------------------------------
C28_FootprintsDisjointInsideCanvas ==
    (pc \in {"loop", "done"} /\ AllPositive(glyphs) /\ DistinctKeys(glyphs)) =>
        /\ \A i, j \in 1..(idx - 1) :
              i # j => ~Overlap(Footprint(to_pack[i]), Footprint(to_pack[j]))
        /\ \A i \in 1..(idx - 1) :
              /\ Footprint(to_pack[i]).x + to_pack[i].width <= nodes[root].width
              /\ Footprint(to_pack[i]).y + to_pack[i].height <= nodes[root].height
        /\ Done => width = nodes[root].width /\ height = nodes[root].height

\* Three glyphs placed, one of them in a node larger than itself, so that
\* its footprint is smaller than the rectangle recorded for it
C28_Witness ==
    /\ Done /\ AllPositive(glyphs) /\ DistinctKeys(glyphs)
    /\ Len(to_pack) = 3
    /\ \E i \in DOMAIN to_pack :
          /\ items[to_pack[i].character].width > to_pack[i].width
          /\ Footprint(to_pack[i]).x > 0
    /\ \E i \in DOMAIN to_pack : Footprint(to_pack[i]).y > 0

\* C29: a failed parse leaves the caller's cursor unchanged: when parse_le
\* or parse_be of an integer, of a fixed-size array or of a parseable_struct
\* record returns an error, the input slice is the same bytes as before the
\* call, even when leading elements or fields were read; when it succeeds,
\* the cursor has advanced past exactly the bytes of the value.
C29_FailedParseKeepsCursor ==
    Called =>
        /\ parsed # IndexPanic
        /\ ~parsed.ok => input = bytes
        /\ parsed.ok => input = Drop(bytes, shape_size(shape, ty))
        /\ parsed.ok <=> Len(bytes) >= shape_size(shape, ty)

\* An array parse fails after two of its elements were read
C29_Witness ==
    /\ Called
    /\ ~parsed.ok
    /\ input = bytes
    /\ shape.kind = "array"
    /\ ty.size = 2
    /\ Len(bytes) = 5

\* Every node is either occupied with both children or free with none
OccupiedHaveChildren(ns) ==
    \A n \in DOMAIN ns :
        /\ ns[n].occupied <=> (ns[n].down # None /\ ns[n].right # None)
        /\ ns[n].occupied \/ (ns[n].down = None /\ ns[n].right = None)
        /\ ns[n].down \in {None} \cup DOMAIN ns
        /\ ns[n].right \in {None} \cup DOMAIN ns

\* C30: in every reachable state of the packer a node is occupied if and
\* only if it has both a down and a right child, so no unwrap of find_node
\* fails; and in every step each node stays in the tree with the position
\* and size it was created with, and an occupied node stays occupied.
C30_OccupiedIffChildrenAndNodesFixed ==
    /\ [](OccupiedHaveChildren(nodes) /\ last.how # "unwrap_failed")
    /\ [][\A n \in DOMAIN nodes :
             /\ n \in DOMAIN nodes'
             /\ Box(nodes'[n]) = Box(nodes[n])
             /\ nodes[n].occupied => nodes'[n].occupied]_vars

\* A packing ends on a root made by growing, over a tree in which a child
\* of an occupied node is occupied too, with free leaves left
C30_Witness ==
    /\ Done
    /\ root # 1
    /\ \E n \in DOMAIN nodes :
          /\ n # root
          /\ nodes[n].occupied
          /\ nodes[nodes[n].right].occupied
    /\ \E n \in DOMAIN nodes : ~nodes[n].occupied /\ nodes[n].width > 0
                                 /\ nodes[n].height > 0

====
